---- MODULE Spec2Model ----
(***************************************************************************)
(* Model of src/src/ast_generator.py: define_ast(output_file, base, types) *)
(* writes a Rust enum and a Visitor trait for a list of schema lines.      *)
(*                                                                         *)
(* Text is modelled character by character: a Python str is a sequence of  *)
(* one-character strings.  No character of the model is a newline, and     *)
(* every f.write of the source ends in "\n", so a file is the sequence of  *)
(* its text lines (a write ending in "\n\n" adds an empty line).           *)
(***************************************************************************)
EXTENDS Integers, Sequences, FiniteSets, TLC

VARIABLES fs, output_file, base, types, outcome, raised_at, emitted

vars == <<fs, output_file, base, types, outcome, raised_at, emitted>>

(***************************************************************************)
(* Python str methods used by define_ast.                                  *)
(***************************************************************************)
\* the characters str.strip() removes (of those the model draws)
Whitespace == {" ", "\t"}

RECURSIVE lstrip(_)
lstrip(s) ==
    IF s = <<>> THEN s
    ELSE IF Head(s) \in Whitespace THEN lstrip(Tail(s)) ELSE s

RECURSIVE rstrip(_)
rstrip(s) ==
    IF s = <<>> THEN s
    ELSE IF s[Len(s)] \in Whitespace THEN rstrip(SubSeq(s, 1, Len(s) - 1)) ELSE s

\* str.strip(): leading and trailing whitespace removed
strip(s) == rstrip(lstrip(s))

RECURSIVE split_from(_, _, _, _)
split_from(s, sep, i, cur) ==
    IF i > Len(s) THEN <<cur>>
    ELSE IF s[i] = sep THEN <<cur>> \o split_from(s, sep, i + 1, <<>>)
    ELSE split_from(s, sep, i + 1, Append(cur, s[i]))

\* str.split(sep): cut at EVERY occurrence of sep; always at least one piece
split(s, sep) == split_from(s, sep, 1, <<>>)

\* str.split(sep, maxsplit=1): cut at the first occurrence of sep only
split_maxsplit1(s, sep) ==
    IF \E i \in 1..Len(s) : s[i] = sep
    THEN LET k == CHOOSE i \in 1..Len(s) :
                    s[i] = sep /\ \A j \in 1..(i - 1) : s[j] # sep
         IN <<SubSeq(s, 1, k - 1), SubSeq(s, k + 1, Len(s))>>
    ELSE <<s>>

lower_char(c) ==
    CASE c = "A" -> "a" [] c = "B" -> "b" [] c = "E" -> "e" [] c = "K" -> "k"
      [] c = "M" -> "m" [] c = "S" -> "s" [] c = "T" -> "t" [] c = "U" -> "u"
      [] c = "V" -> "v" [] OTHER -> c

\* str.lower()
lower_forgotten(s) == s

lower(s) == [i \in 1..Len(s) |-> lower_char(s[i])]

(***************************************************************************)
(* The text each f.write produces (without its final newline).             *)
(***************************************************************************)
\* line 9: f'pub enum {base} {{\n'
enum_line(b) == <<"p","u","b"," ","e","n","u","m"," ">> \o b \o <<" ","{">>

\* line 14: f'{name} {{\n'
variant_line(name) == name \o <<" ","{">>

\* line 22: f'    {field_name.strip()}: {type.strip()},\n'
field_line(field_name, type) ==
    <<" "," "," "," ">> \o strip(field_name) \o <<":"," ">> \o strip(type) \o <<",">>

\* line 23: '},\n\n'
variant_close == << <<"}", ",">>, <<>> >>

\* line 24: "}\n\n"
enum_close == << <<"}">>, <<>> >>

\* line 26: 'pub trait Visitor<R, E> {\n'
trait_line ==
    <<"p","u","b"," ","t","r","a","i","t"," ",
      "V","i","s","i","t","o","r","<","R",","," ","E",">"," ","{">>

fn_prefix == <<" "," ","f","n"," ","v","i","s","i","t","_">>

\* line 28: f'  fn visit_{base.lower()}(&mut self, {base.lower()}: &{base}) -> Result<R, E>;\n'
\* with lb standing for base.lower()
visit_fn(lb, b) ==
    fn_prefix \o lb
      \o <<"(","&","m","u","t"," ","s","e","l","f",","," ">> \o lb
      \o <<":"," ","&">> \o b
      \o <<")"," ","-",">"," ","R","e","s","u","l","t","<","R",","," ","E",">",";">>

fn_line(b) == visit_fn(lower(b), b)

\* lines 26-29: the Visitor trait
visitor(b) == <<trait_line, fn_line(b), <<"}">>, <<>> >>

(***************************************************************************)
(* define_ast.  The running state of one call is a record                  *)
(*   f       the content of the open file                                  *)
(*   emitted what lines 14 and 22 have written: per variant its name and   *)
(*           its (field_name, type) pairs                                  *)
(*   lineno  0, or the source line whose spl[1] raised IndexError          *)
(*   at      the index in types of the line being processed                *)
(***************************************************************************)
\* open(output_file, 'w') truncates
append_mode(old) == old

open_w(old) == <<>>

RECURSIVE fields_loop(_, _, _)
\* lines 17-22: for field in fields
fields_loop(st, fields, j) ==
    IF j > Len(fields) THEN st
    ELSE LET spl == split_maxsplit1(strip(fields[j]), " ")
             field_name == spl[1]
         IN IF Len(spl) < 2
            THEN [st EXCEPT !.lineno = 20]
            ELSE LET type == spl[2]
                     v == Len(st.emitted)
                 IN fields_loop(
                      [st EXCEPT
                         !.f = Append(@, field_line(field_name, type)),
                         !.emitted[v].fields =
                             Append(@, [field_name |-> strip(field_name),
                                        type |-> strip(type)])],
                      fields, j + 1)

RECURSIVE types_loop(_, _, _)
\* lines 11-23: for t in types
types_loop(st, ts, i) ==
    IF i > Len(ts) THEN st
    ELSE LET spl == split(ts[i], ":")
             name == strip(spl[1])
             st1 == [st EXCEPT
                       !.f = Append(@, variant_line(name)),
                       !.emitted = Append(@, [name |-> name, fields |-> <<>>]),
                       !.at = i - 1]
         IN IF Len(spl) < 2
            THEN [st1 EXCEPT !.lineno = 16]
            ELSE LET st2 == fields_loop(st1, split(strip(spl[2]), ","), 1)
                 IN IF st2.lineno # 0
                    THEN st2
                    ELSE types_loop([st2 EXCEPT !.f = @ \o variant_close],
                                    ts, i + 1)

\* lines 7-29; old is what output_file held before the call.  An exception
\* leaves the with block, which closes the file with what was written so far.
define_ast(old, b, ts) ==
    LET st0 == [f |-> Append(open_w(old), enum_line(b)),
                emitted |-> <<>>, lineno |-> 0, at |-> -1]
        st1 == types_loop(st0, ts, 1)
    IN IF st1.lineno # 0
       THEN st1
       ELSE [st1 EXCEPT !.f = @ \o enum_close \o visitor(b), !.at = -1]

\* how the call ended, as its caller sees it
NotCalled == [status |-> "none", exc |-> "", lineno |-> 0]

result_of(st) ==
    IF st.lineno = 0
    THEN [status |-> "returned", exc |-> "", lineno |-> 0]
    ELSE [status |-> "raised", exc |-> "IndexError", lineno |-> st.lineno]

Returned == outcome.status = "returned"
Raised == outcome.status = "raised"

\* the file system after the call has written content to path d
every_path(fsys, d, content) == [q \in DOMAIN fsys |-> content]

write_back(fsys, d, content) == [fsys EXCEPT ![d] = content]

\* one whole call of define_ast(d, b, ts)
do_call(d, b, ts) ==
    LET st == define_ast(fs[d], b, ts)
    IN /\ fs' = write_back(fs, d, st.f)
       /\ output_file' = d
       /\ base' = b
       /\ types' = ts
       /\ outcome' = result_of(st)
       /\ raised_at' = st.at
       /\ emitted' = st.emitted

(***************************************************************************)
(* Inputs.                                                                 *)
(***************************************************************************)
\* lines 45 and 59: the two destinations of the driver
Paths == {"src/expr_new.rs", "src/stmt_new.rs"}

\* base names: "Ex" and "S"
Bases == { <<"E","x">>, <<"S">> }

\* all sequences over S of length 0..n
SeqsUpTo(S, n) == UNION { [1..k -> S] : k \in 0..n }

\* "A: a T"  (well formed)
GoodLine == <<"A",":"," ","a"," ","T">>
\* "B: a T,b"  (second field has no type)
NoTypeLine == <<"B",":"," ","a"," ","T",",","b">>
\* "B a T"  (no colon)
NoColonLine == <<"B"," ","a"," ","T">>

CallLines == {GoodLine, NoTypeLine, NoColonLine}

\* longest list of schema lines a call of Spec is given
MaxLines == 2

CallTypes == SeqsUpTo(CallLines, MaxLines)

\* longest whitespace run put between a field name and its type
MaxGap == 2

Gaps == SeqsUpTo(Whitespace, MaxGap)

TypeExprs ==
    { <<>>,                                   \* type missing
      <<"T">>,
      <<"M","<","K",","," ","V",">">>,        \* M<K, V>
      <<"a",":",":","B">>,                    \* a::B
      <<"T"," ","b"," ","U">>,                \* "T b U": comma missing
      <<"T","B",":"," ","b"," ","U">> }       \* "TB: b U": two lines run together

FirstFields ==
    { lead \o <<"a">> \o gap \o ty \o trail :
        lead \in {<<>>, <<" ">>}, gap \in Gaps, ty \in TypeExprs,
        trail \in {<<>>, <<"\t">>} }

MoreFields ==
    { <<"b"," ","U">>, <<" ","b"," "," ","U"," ">>, <<"b">>, <<"c","\t","U">> }

FieldLists ==
    FirstFields \cup { f1 \o <<",">> \o f2 : f1 \in FirstFields, f2 \in MoreFields }

Heads ==
    { pad1 \o <<"A">> \o pad2 \o sep :
        pad1 \in {<<>>, <<" ">>}, pad2 \in {<<>>, <<" ">>}, sep \in {<<":">>, <<>>} }

SchemaLines == { h \o fl : h \in Heads, fl \in FieldLists }

\* one schema line, alone or after a well-formed line
OneTypes == { <<l>> : l \in SchemaLines } \cup { <<GoodLine, l>> : l \in SchemaLines }

(***************************************************************************)
(* Spec: any sequence of calls of define_ast.                              *)
(***************************************************************************)
Init ==
    /\ fs = [p \in Paths |-> <<>>]
    /\ output_file = "src/expr_new.rs"
    /\ base = <<>>
    /\ types = <<>>
    /\ outcome = NotCalled
    /\ raised_at = -1
    /\ emitted = <<>>

Call == \E d \in Paths, b \in Bases, ts \in CallTypes : do_call(d, b, ts)

Next == Call

Spec == Init /\ [][Next]_vars

(***************************************************************************)
(* SpecOne: one call of define_ast on an empty destination, its schema     *)
(* lines drawn from SchemaLines.                                           *)
(***************************************************************************)
InitOne ==
    /\ fs = [p \in Paths |-> <<>>]
    /\ output_file = "src/expr_new.rs"
    /\ base = <<"E","x">>
    /\ types \in OneTypes
    /\ outcome = NotCalled
    /\ raised_at = -1
    /\ emitted = <<>>

Compile == outcome = NotCalled /\ do_call(output_file, base, types)

NextOne == Compile

SpecOne == InitOne /\ [][NextOne]_vars

(***************************************************************************)
(* The schema grammar the claims are stated against:                       *)
(*   VariantName ':' FieldSpec (',' FieldSpec)*                            *)
(*   FieldSpec = FieldName WHITESPACE TypeExpr                             *)
(* The variant name ends at the FIRST ':'; fields are separated by the     *)
(* commas outside angle brackets; the field name ends at the first         *)
(* whitespace and the type is the trimmed remainder.                       *)
(***************************************************************************)
Called == outcome.status # "none"

HasColon(line) == \E i \in 1..Len(line) : line[i] = ":"

FirstColon(line) ==
    CHOOSE i \in 1..Len(line) : line[i] = ":" /\ \A j \in 1..(i - 1) : line[j] # ":"

\* how many angle brackets are open before position i of s
Depth(s, i) ==
    Cardinality({j \in 1..(i - 1) : s[j] = "<"}) - Cardinality({j \in 1..(i - 1) : s[j] = ">"})

RECURSIVE TopSplitFrom(_, _, _)
TopSplitFrom(s, i, start) ==
    IF i > Len(s) THEN <<SubSeq(s, start, Len(s))>>
    ELSE IF s[i] = "," /\ Depth(s, i) = 0
         THEN <<SubSeq(s, start, i - 1)>> \o TopSplitFrom(s, i + 1, i + 1)
         ELSE TopSplitFrom(s, i + 1, start)

\* the trimmed field specs of a line that has a colon
FieldSpecs(line) ==
    LET parts == TopSplitFrom(SubSeq(line, FirstColon(line) + 1, Len(line)), 1, 1)
    IN [k \in 1..Len(parts) |-> strip(parts[k])]

HasType(fspec) == \E i \in 1..Len(fspec) : fspec[i] \in Whitespace

FirstSpace(fspec) ==
    CHOOSE i \in 1..Len(fspec) :
        fspec[i] \in Whitespace /\ \A j \in 1..(i - 1) : fspec[j] \notin Whitespace

FieldNameOf(fspec) ==
    IF HasType(fspec) THEN SubSeq(fspec, 1, FirstSpace(fspec) - 1) ELSE fspec

TypeExprOf(fspec) ==
    IF HasType(fspec) THEN strip(SubSeq(fspec, FirstSpace(fspec), Len(fspec))) ELSE <<>>

\* the two malformations of the grammar
MissingSeparator(line) == ~HasColon(line)

MissingType(line) ==
    HasColon(line) /\ \E k \in 1..Len(FieldSpecs(line)) : ~HasType(FieldSpecs(line)[k])

Malformed(line) == MissingSeparator(line) \/ MissingType(line)

\* a field spec that holds more than a name and a type: after the type
\* comes whitespace outside angle brackets and then more text
CommaMissing(line) ==
    /\ HasColon(line)
    /\ \E k \in 1..Len(FieldSpecs(line)) :
         LET ty == TypeExprOf(FieldSpecs(line)[k])
         IN \E i \in 1..Len(ty) : ty[i] \in Whitespace /\ Depth(ty, i) = 0

\* a line of the grammar with every comma in place
WellFormed(line) == ~Malformed(line) /\ ~CommaMissing(line)

\* what a well-formed line declares
Declared(line) ==
    [name |-> strip(SubSeq(line, 1, FirstColon(line) - 1)),
     fields |-> [k \in 1..Len(FieldSpecs(line)) |->
                   [field_name |-> FieldNameOf(FieldSpecs(line)[k]),
                    type |-> TypeExprOf(FieldSpecs(line)[k])]]]

AllWellFormed == \A k \in 1..Len(types) : WellFormed(types[k])

Names(vs) == [k \in 1..Len(vs) |-> vs[k].name]
FieldNames(v) == [k \in 1..Len(v.fields) |-> v.fields[k].field_name]
FieldTypes(v) == [k \in 1..Len(v.fields) |-> v.fields[k].type]

DeclaredVariants == [k \in 1..Len(types) |-> Declared(types[k])]

HasPrefix(s, pre) == Len(s) >= Len(pre) /\ SubSeq(s, 1, Len(pre)) = pre

Count(f, pre) == Cardinality({i \in 1..Len(f) : HasPrefix(f[i], pre)})

(***************************************************************************)
(* Claims.                                                                 *)
(***************************************************************************)
\* C1: if some schema line has no ':' or some field spec of some line has no
\* whitespace after its field name, the call fails instead of returning.
C1_MalformedRejected ==
    (Called /\ \E k \in 1..Len(types) : Malformed(types[k])) => Raised

\* C2: when the call fails, the destination holds no output of that call:
\* no header, no earlier variant, no part of the malformed line's variant.
C2_NoPartialOutput == Raised => fs[output_file] = <<>>

\* C3: for a valid schema the emitted variant names are the declared variant
\* names in input order, and each variant's emitted field names are its
\* declared field names in input order.
C3_OrderPreserved ==
    (Returned /\ AllWellFormed) =>
        /\ Names(emitted) = Names(DeclaredVariants)
        /\ \A k \in 1..Len(types) :
             FieldNames(emitted[k]) = FieldNames(DeclaredVariants[k])

\* a line whose whitespace is all plain spaces
PlainSpaces(line) == \A i \in 1..Len(line) : line[i] # "\t"

\* C4: for every field spec the emitted type text is the trimmed remainder
\* of the field spec after its name, also when the type holds a comma or a
\* colon inside a generic type; the variant keeps its number of fields.
\* (Stated for lines whose whitespace is plain spaces, so that tabs, the
\* subject of C5, play no part.)
C4_TypeTextVerbatim ==
    (Called /\ AllWellFormed /\ \A k \in 1..Len(types) : PlainSpaces(types[k])) =>
        /\ Returned
        /\ Len(emitted) = Len(types)
        /\ \A k \in 1..Len(types) :
             FieldTypes(emitted[k]) = FieldTypes(DeclaredVariants[k])

Insert(s, i, c) == SubSeq(s, 1, i) \o <<c>> \o SubSeq(s, i + 1, Len(s))

\* two well-formed lines that declare the same trimmed tokens
SameDeclaration(l1, l2) ==
    WellFormed(l1) /\ WellFormed(l2) /\ Declared(l1) = Declared(l2)

Trimmed(s) == strip(s) = s

\* C5: a schema line and the same line with one more whitespace character
\* around a variant name, a field name or a type expression (the two still
\* declare the same trimmed tokens) produce identical output, and every
\* emitted token is trimmed.
C5_WhitespaceTolerance ==
    Called =>
        /\ \A k \in 1..Len(types) : \A i \in 0..Len(types[k]) : \A w \in Whitespace :
             LET l2 == Insert(types[k], i, w)
             IN SameDeclaration(types[k], l2) =>
                  LET again == define_ast(<<>>, base, [types EXCEPT ![k] = l2])
                  IN again.f = fs[output_file] /\ result_of(again) = outcome
        /\ \A k \in 1..Len(emitted) :
             /\ Trimmed(emitted[k].name)
             /\ \A j \in 1..Len(emitted[k].fields) :
                  Trimmed(emitted[k].fields[j].field_name)
                    /\ Trimmed(emitted[k].fields[j].type)

UpperChars == {"A", "B", "E", "K", "M", "S", "T", "U", "V"}

CasePairs ==
    { <<"A","a">>, <<"B","b">>, <<"E","e">>, <<"K","k">>, <<"M","m">>,
      <<"S","s">>, <<"T","t">>, <<"U","u">>, <<"V","v">> }

\* l is s with every upper-case letter replaced by its lower-case letter
IsLowercaseOf(l, s) ==
    /\ Len(l) = Len(s)
    /\ \A i \in 1..Len(s) :
         IF s[i] \in UpperChars THEN <<s[i], l[i]>> \in CasePairs ELSE l[i] = s[i]

\* C6: a call that returns has emitted exactly one union declaration, named
\* base, and after it exactly one Visitor<R, E> trait with exactly one
\* operation, visit_<lower-case base>, taking &base and returning
\* Result<R, E>, however many variants there are.
C6_OneUnionOneVisitor ==
    Returned =>
        LET f == fs[output_file]
            n == Len(f)
            l == SubSeq(f[n - 2], Len(fn_prefix) + 1, Len(fn_prefix) + Len(base))
        IN /\ n >= 6
           /\ f[1] = <<"p","u","b"," ","e","n","u","m"," ">> \o base \o <<" ","{">>
           /\ Count(f, <<"p","u","b"," ","e","n","u","m"," ">>) = 1
           /\ Count(f, <<"p","u","b"," ","t","r","a","i","t"," ">>) = 1
           /\ Count(f, <<" "," ","f","n"," ">>) = 1
           /\ f[n - 3] = trait_line
           /\ IsLowercaseOf(l, base)
           /\ f[n - 2] = visit_fn(l, base)
           /\ f[n - 1] = <<"}">>
           /\ f[n] = <<>>

C6_Witness ==
    Returned /\ Len(types) = 2 /\ base = <<"E","x">> /\ Len(emitted) = 2

\* the last call made once more, on the destination p as it stands now
Again(p) == define_ast(fs[p], base, types)

\* C7: a call with the same base and types as the last one yields the same
\* output, byte for byte, whatever the destination holds when it runs.
C7_Deterministic ==
    /\ [](Called => \A p \in Paths :
            Again(p).f = fs[output_file] /\ result_of(Again(p)) = outcome)
    /\ [][(Called /\ base' = base /\ types' = types) =>
            (fs'[output_file'] = fs[output_file] /\ outcome' = outcome)]_vars

C7_Witness ==
    /\ Returned
    /\ \E p \in Paths :
         p # output_file /\ fs[p] # <<>> /\ fs[p] # fs[output_file]

\* C8: the failure identifies the offending line by its index and states
\* which of the two reasons applies: two failing calls that report the same
\* failure failed on the same index and for the same reason.
C8_FailureIdentifiesLine ==
    Raised =>
        \A b \in Bases, ts \in CallTypes :
            LET other == define_ast(<<>>, b, ts)
            IN result_of(other) = outcome =>
                 /\ other.at = raised_at
                 /\ MissingSeparator(ts[other.at + 1])
                      <=> MissingSeparator(types[raised_at + 1])

\* a file that ends with the Visitor trait: the output of a call that returned
Complete(f) == Len(f) >= 6 /\ f[Len(f) - 3] = trait_line

C10_MissingCommaRejected ==
    (Called /\ \E k \in 1..Len(types) : CommaMissing(types[k])) => Raised
====
